---- MODULE Spec2Model ----
(***************************************************************************)
(* Model of src/src/canvas.rs: OffscreenCanvasBackend, the plotters        *)
(* DrawingBackend over a web_sys OffscreenCanvas 2D rendering context.     *)
(*                                                                         *)
(* Strings are sequences of one-character strings, so that format! is a    *)
(* concatenation whose result can be inspected character by character.     *)
(* f64 values that are formatted (alpha, font size) are integers counting  *)
(* tenths; angles are integers counting PI / PiUnits.                      *)
(***************************************************************************)
EXTENDS Integers, Sequences, FiniteSets, TLC

VARIABLES surfaces, backend, ctx, lastCall, ops, result, ncalls

vars == <<surfaces, backend, ctx, lastCall, ops, result, ncalls>>

(* ------------------------------ bounds --------------------------------- *)

MaxCalls == 2

(* the value of std::f64::consts::PI, in angle units *)
PiUnits == 900

(* the record of the most recent call; no call has been made yet *)
NoCall == [op |-> "none"]

Surfaces == {"s1", "s2"}

ContextOutcomes == {"throws", "null", "other", "2d"}

Points == {<<0, 0>>, <<50, 10>>}

TextPositions == {<<50, 10>>}

Alphas == {-5, 0, 5, 15}

Colors == {[rgb |-> <<255, 128, 7>>, alpha |-> a] : a \in Alphas}

StrokeWidths == {1, 2}

FontTransforms == {"None", "Rotate90", "Rotate180", "Rotate270"}

HPositions == {"Left", "Right", "Center"}

Texts == {<<"h", "i">>}

TextStyles ==
    {[color |-> c, transform |-> t, h_pos |-> h, size |-> 200,
      style |-> <<"b", "o", "l", "d">>, family |-> <<"s", "e", "r", "i", "f">>] :
        c \in Colors, t \in FontTransforms, h \in HPositions}

JsErrors ==
    {[json |-> <<"{", "}">>, stringifiable |-> TRUE],
     [json |-> <<>>, stringifiable |-> FALSE]}

Failures ==
    {[at |-> "none", e |-> [json |-> <<"{", "}">>, stringifiable |-> TRUE]]}
    \cup {[at |-> a, e |-> e] : a \in {"translate", "rotate", "fill_text"}, e \in JsErrors}

(* ------------------------- strings and numbers ------------------------- *)

DigitChars == <<"0", "1", "2", "3", "4", "5", "6", "7", "8", "9">>

RECURSIVE FormatInt(_)
FormatInt(n) ==
    IF n < 10 THEN <<DigitChars[n + 1]>>
    ELSE FormatInt(n \div 10) \o <<DigitChars[(n % 10) + 1]>>

FormatF64(t) ==
    LET m == IF t < 0 THEN -t ELSE t
    IN  (IF t < 0 THEN <<"-">> ELSE <<>>)
        \o FormatInt(m \div 10)
        \o (IF m % 10 = 0 THEN <<>> ELSE <<".", DigitChars[(m % 10) + 1]>>)

make_canvas_color(color) ==
    <<"r", "g", "b", "a", "(">>
    \o FormatInt(color.rgb[1]) \o <<",">>
    \o FormatInt(color.rgb[2]) \o <<",">>
    \o FormatInt(color.rgb[3]) \o <<",">>
    \o FormatF64(color.alpha)

JSON_stringify(e) ==
    IF e.stringifiable THEN [tag |-> "Ok", val |-> e.json]
    ELSE [tag |-> "Err", val |-> <<>>]

OkUnit == [tag |-> "Ok", val |-> <<>>]

error_cast_unknown(e) ==
    [tag |-> "DrawingError", val |-> <<"u", "n", "k", "n", "o", "w", "n">>]

error_cast(e) ==
    LET s == JSON_stringify(e)
    IN  [tag |-> "DrawingError",
         val |-> IF s.tag = "Ok" THEN s.val
                 ELSE <<"u", "n", "k", "n", "o", "w", "n">>]

(* ------------------------- the rendering context ----------------------- *)

Call(op, args) == [op |-> op, args |-> args]

IdentityTransform == <<>>

NewContextState == [transform |-> IdentityTransform, saved |-> <<>>]

(* effect of one successful context operation on the context's state *)
Apply(c, call) ==
    CASE call.op = "save" ->
           [c EXCEPT !.saved = Append(c.saved, c.transform)]
      [] call.op = "restore" ->
           IF c.saved = <<>> THEN c
           ELSE [transform |-> c.saved[Len(c.saved)],
                 saved |-> SubSeq(c.saved, 1, Len(c.saved) - 1)]
      [] call.op \in {"translate", "rotate"} ->
           [c EXCEPT !.transform = Append(c.transform, call)]
      [] OTHER -> c

Fallible == {"translate", "rotate", "fill_text"}

(* Runs the calls of one backend method in order. A fallible call that the *)
(* host rejects is issued, leaves the context unchanged, and ends the      *)
(* method with error_cast of the thrown value (map_err(error_cast)?).      *)
RECURSIVE Execute(_, _, _, _)
Execute(c, planned, fail, done) ==
    IF planned = <<>> THEN [ctx |-> c, ops |-> done, result |-> OkUnit]
    ELSE LET call == Head(planned)
         IN  IF call.op \in Fallible /\ call.op = fail.at
             THEN [ctx |-> c, ops |-> Append(done, call), result |-> error_cast(fail.e)]
             ELSE Execute(Apply(c, call), Tail(planned), fail, Append(done, call))

NoFailure == [at |-> "none", e |-> [json |-> <<"{", "}">>, stringifiable |-> TRUE]]

(* ------------------------------ construction --------------------------- *)

NullObject == [type |-> "null", surface |-> "none"]

None == [tag |-> "None", canvas |-> "none", context |-> NullObject]

get_context(canvas, outcome) ==
    CASE outcome = "throws" -> [tag |-> "Err", obj |-> NullObject]
      [] outcome = "null" -> [tag |-> "Ok", obj |-> NullObject]
      [] outcome = "other" ->
           [tag |-> "Ok", obj |-> [type |-> "ImageBitmapRenderingContext", surface |-> canvas]]
      [] OTHER ->
           [tag |-> "Ok", obj |-> [type |-> "OffscreenCanvasRenderingContext2d", surface |-> canvas]]

dyn_into(obj) == obj.type = "OffscreenCanvasRenderingContext2d"

init_backend_nocast(canvas, outcome) ==
    LET r == get_context(canvas, outcome)
    IN  IF r.tag = "Err" THEN None
        ELSE IF r.obj = NullObject THEN None
        ELSE [tag |-> "Some", canvas |-> canvas, context |-> r.obj]

init_backend(canvas, outcome) ==
    LET r == get_context(canvas, outcome)
    IN  IF r.tag = "Err" THEN None
        ELSE IF r.obj = NullObject THEN None
        ELSE IF ~dyn_into(r.obj) THEN None
        ELSE [tag |-> "Some", canvas |-> canvas, context |-> r.obj]

Init ==
    /\ surfaces = [s \in Surfaces |-> IF s = "s1" THEN <<100, 100>> ELSE <<500, 300>>]
    /\ backend = None
    /\ ctx = NewContextState
    /\ lastCall = NoCall
    /\ ops = <<>>
    /\ result = OkUnit
    /\ ncalls = 0

new(canvas, outcome) ==
    /\ backend = None
    /\ backend' = init_backend(canvas, outcome)
    /\ lastCall' = [op |-> "new", canvas |-> canvas, outcome |-> outcome]
    /\ result' = [tag |-> backend'.tag, val |-> <<>>]
    /\ ops' = <<>>
    /\ UNCHANGED <<surfaces, ctx, ncalls>>

(* ------------------------------ operations ----------------------------- *)

Callable == backend.tag = "Some" /\ ncalls < MaxCalls

(* one backend method: its call record and its outcome on the context *)
Method(call, planned, fail) ==
    LET run == Execute(ctx, planned, fail, <<>>)
    IN  /\ Callable
        /\ lastCall' = call
        /\ ops' = run.ops
        /\ ctx' = run.ctx
        /\ result' = run.result
        /\ ncalls' = ncalls + 1
        /\ UNCHANGED <<surfaces, backend>>

ensure_prepared ==
    Method([op |-> "ensure_prepared"], <<>>, NoFailure)

present ==
    Method([op |-> "present"], <<>>, NoFailure)

get_size_swapped ==
    /\ Callable
    /\ lastCall' = [op |-> "get_size"]
    /\ result' = [tag |-> "Size",
                  val |-> <<surfaces[backend.canvas][2], surfaces[backend.canvas][1]>>]
    /\ ops' = <<>>
    /\ ncalls' = ncalls + 1
    /\ UNCHANGED <<surfaces, backend, ctx>>

get_size ==
    /\ Callable
    /\ lastCall' = [op |-> "get_size"]
    /\ result' = [tag |-> "Size",
                  val |-> <<surfaces[backend.canvas][1], surfaces[backend.canvas][2]>>]
    /\ ops' = <<>>
    /\ ncalls' = ncalls + 1
    /\ UNCHANGED <<surfaces, backend, ctx>>

draw_pixel_calls_nonpositive(point, style) ==
    IF style.alpha <= 0 THEN <<>>
    ELSE <<Call("set_fill_style", make_canvas_color(style)),
           Call("fill_rect", <<point[1], point[2], 1, 1>>)>>

draw_pixel_calls(point, style) ==
    IF style.alpha = 0 THEN <<>>
    ELSE <<Call("set_fill_style", make_canvas_color(style)),
           Call("fill_rect", <<point[1], point[2], 1, 1>>)>>

draw_pixel(point, style) ==
    Method([op |-> "draw_pixel", color |-> style, point |-> point],
           draw_pixel_calls(point, style), NoFailure)

set_line_style_nowidth(style) ==
    <<Call("set_stroke_style", make_canvas_color(style.color))>>

set_line_style(style) ==
    <<Call("set_stroke_style", make_canvas_color(style.color)),
      Call("set_line_width", <<style.stroke_width>>)>>

draw_line_calls_noskip(from, to, style) ==
    set_line_style(style)
    \o <<Call("begin_path", <<>>),
         Call("move_to", <<from[1], from[2]>>),
         Call("line_to", <<to[1], to[2]>>),
         Call("stroke", <<>>)>>

draw_line_calls(from, to, style) ==
    IF style.color.alpha = 0 THEN <<>>
    ELSE set_line_style(style)
         \o <<Call("begin_path", <<>>),
              Call("move_to", <<from[1], from[2]>>),
              Call("line_to", <<to[1], to[2]>>),
              Call("stroke", <<>>)>>

draw_line(from, to, style) ==
    Method([op |-> "draw_line", color |-> style.color,
            stroke_width |-> style.stroke_width, from |-> from, to |-> to],
           draw_line_calls(from, to, style), NoFailure)

Degrees(transform) ==
    CASE transform = "None" -> 0
      [] transform = "Rotate90" -> 90
      [] transform = "Rotate180" -> 180
      [] transform = "Rotate270" -> 270

(* `degree` of draw_text: the mapped value / 100.0 * PI *)
degree(transform) == (Degrees(transform) * PiUnits) \div 100

text_align(h_pos) ==
    CASE h_pos = "Left" -> "start"
      [] h_pos = "Right" -> "end"
      [] h_pos = "Center" -> "center"

font(style) ==
    style.style \o <<" ">> \o FormatF64(style.size) \o <<"p", "x", " ">> \o style.family

draw_text_calls_keep_pos(text, style, pos) ==
    IF style.color.alpha = 0 THEN <<>>
    ELSE LET rotated == degree(style.transform) # 0
         IN  (IF rotated
              THEN <<Call("save", <<>>),
                     Call("translate", <<pos[1], pos[2]>>),
                     Call("rotate", <<degree(style.transform)>>)>>
              ELSE <<>>)
             \o <<Call("set_text_align", <<text_align(style.h_pos)>>),
                  Call("set_fill_style", make_canvas_color(style.color)),
                  Call("set_font", font(style)),
                  Call("fill_text", <<text, pos[1], pos[2]>>)>>
             \o (IF rotated THEN <<Call("restore", <<>>)>> ELSE <<>>)

draw_text_calls(text, style, pos) ==
    IF style.color.alpha = 0 THEN <<>>
    ELSE LET rotated == degree(style.transform) # 0
             x == IF rotated THEN 0 ELSE pos[1]
             y == IF rotated THEN 0 ELSE pos[2]
         IN  (IF rotated
              THEN <<Call("save", <<>>),
                     Call("translate", <<pos[1], pos[2]>>),
                     Call("rotate", <<degree(style.transform)>>)>>
              ELSE <<>>)
             \o <<Call("set_text_align", <<text_align(style.h_pos)>>),
                  Call("set_fill_style", make_canvas_color(style.color)),
                  Call("set_font", font(style)),
                  Call("fill_text", <<text, x, y>>)>>
             \o (IF rotated THEN <<Call("restore", <<>>)>> ELSE <<>>)

draw_text(text, style, pos, fail) ==
    Method([op |-> "draw_text", color |-> style.color, transform |-> style.transform,
            h_pos |-> style.h_pos, fail |-> fail, text |-> text, pos |-> pos],
           draw_text_calls(text, style, pos), fail)

Next ==
    \/ \E canvas \in Surfaces, outcome \in ContextOutcomes : new(canvas, outcome)
    \/ ensure_prepared
    \/ present
    \/ get_size
    \/ \E point \in Points, style \in Colors : draw_pixel(point, style)
    \/ \E from \in Points, to \in Points, c \in Colors, w \in StrokeWidths :
          draw_line(from, to, [color |-> c, stroke_width |-> w])
    \/ \E text \in Texts, style \in TextStyles, pos \in TextPositions, fail \in Failures :
          draw_text(text, style, pos, fail)

Spec == Init /\ [][Next]_vars

(* ------------------------------ properties ----------------------------- *)

(* names of the context operations of a call, in the order issued *)
Names(calls) == [i \in DOMAIN calls |-> calls[i].op]

(* the calls among `calls` whose operation is in `names`, in order *)
Only(calls, names) == SelectSeq(calls, LAMBDA c : c.op \in names)

Drawing == {"draw_pixel", "draw_line", "draw_text"}

TransformOps == {"save", "translate", "rotate", "restore"}

RotatedSequence == <<"save", "translate", "rotate", "fill_text", "restore">>

(* C1: a draw_pixel, draw_line or draw_text call whose alpha is exactly 0  *)
(* issues no operation on the context and returns Ok.                      *)
ZeroAlphaIsSkipped ==
    (lastCall.op \in Drawing /\ lastCall.color.alpha = 0)
        => (ops = <<>> /\ result.tag = "Ok")

ZeroAlphaWitness ==
    /\ lastCall.op = "draw_text"
    /\ lastCall.color.alpha = 0
    /\ lastCall.transform = "Rotate90"
    /\ ops = <<>>

(* C2: for every alpha other than 0, below 0 and above 1 included,         *)
(* draw_pixel returns Ok and calls fill_rect exactly once, at (x, y, 1, 1) *)
(* and after set_fill_style; draw_line calls stroke exactly once; a        *)
(* draw_text call that returns Ok calls fill_text exactly once.            *)
NonZeroAlphaDrawsOnce ==
    /\ (lastCall.op = "draw_pixel" /\ lastCall.color.alpha # 0) =>
          /\ result.tag = "Ok"
          /\ Names(ops) = <<"set_fill_style", "fill_rect">>
          /\ ops[2].args = <<lastCall.point[1], lastCall.point[2], 1, 1>>
    /\ (lastCall.op = "draw_line" /\ lastCall.color.alpha # 0) =>
          /\ result.tag = "Ok"
          /\ Len(Only(ops, {"stroke"})) = 1
    /\ (lastCall.op = "draw_text" /\ lastCall.color.alpha # 0 /\ result.tag = "Ok") =>
          Len(Only(ops, {"fill_text"})) = 1

NonZeroAlphaWitness ==
    /\ lastCall.op = "draw_pixel"
    /\ lastCall.color.alpha < 0
    /\ lastCall.point = <<50, 10>>
    /\ Len(ops) = 2

(* C3, as stated: every draw_text call with non-zero alpha and a rotation  *)
(* issues save, translate(pos), rotate, fill_text at (0,0), restore in     *)
(* this order; with rotation None it issues none of save, translate,       *)
(* rotate, restore and calls fill_text at the given position.              *)
RotatedTextSequence ==
    (lastCall.op = "draw_text" /\ lastCall.color.alpha # 0) =>
        LET seq == Only(ops, TransformOps \cup {"fill_text"})
        IN  IF lastCall.transform = "None"
            THEN /\ Names(seq) = <<"fill_text">>
                 /\ seq[1].args = <<lastCall.text, lastCall.pos[1], lastCall.pos[2]>>
            ELSE /\ Names(seq) = RotatedSequence
                 /\ seq[2].args = lastCall.pos
                 /\ seq[4].args = <<lastCall.text, 0, 0>>

(* C3, amended: a draw_text call with non-zero alpha and a rotation that   *)
(* returns Ok issues save, translate(pos), rotate, fill_text at (0,0),     *)
(* restore in this order; one that returns an error issues that sequence   *)
(* up to and including the operation that failed, and nothing after it;    *)
(* with rotation None it issues none of save, translate, rotate, restore   *)
(* and calls fill_text at the given position.                              *)
RotatedTextSequenceUntilFailure ==
    (lastCall.op = "draw_text" /\ lastCall.color.alpha # 0) =>
        LET seq == Only(ops, TransformOps \cup {"fill_text"})
        IN  IF lastCall.transform = "None"
            THEN /\ Names(seq) = <<"fill_text">>
                 /\ seq[1].args = <<lastCall.text, lastCall.pos[1], lastCall.pos[2]>>
            ELSE /\ IF result.tag = "Ok"
                    THEN Names(seq) = RotatedSequence
                    ELSE /\ \E k \in 2..4 :
                              /\ Names(seq) = SubSeq(RotatedSequence, 1, k)
                              /\ RotatedSequence[k] = lastCall.fail.at
                         /\ ops[Len(ops)].op = lastCall.fail.at
                 /\ seq[2].args = lastCall.pos
                 /\ Len(seq) >= 4 => seq[4].args = <<lastCall.text, 0, 0>>

RotatedTextWitness ==
    /\ lastCall.op = "draw_text"
    /\ lastCall.color.alpha # 0
    /\ lastCall.transform = "Rotate270"
    /\ result.tag = "Ok"
    /\ Len(ops) = 8

(* C4: the angle draw_text passes to rotate is degrees * PI / 180.         *)
RotateAngleIsRadians ==
    lastCall.op = "draw_text" =>
        \A i \in DOMAIN ops :
            ops[i].op = "rotate" =>
                ops[i].args = <<(Degrees(lastCall.transform) * PiUnits) \div 180>>

(* the CSS colour string rgba(r,g,b,a) *)
RgbaString(color) ==
    <<"r", "g", "b", "a", "(">>
    \o FormatInt(color.rgb[1]) \o <<",">>
    \o FormatInt(color.rgb[2]) \o <<",">>
    \o FormatInt(color.rgb[3]) \o <<",">>
    \o FormatF64(color.alpha) \o <<")">>

(* C5: every fill-style or stroke-style value passed to the context is the *)
(* string rgba(r,g,b,a) of the call's colour, both parentheses present.    *)
StyleIsRgbaString ==
    lastCall.op \in Drawing =>
        \A i \in DOMAIN ops :
            ops[i].op \in {"set_fill_style", "set_stroke_style"} =>
                /\ ops[i].args = RgbaString(lastCall.color)
                /\ ops[i].args[Len(ops[i].args)] = ")"

(* C6: construction over a surface whose get_context("2d") fails, returns  *)
(* no context, or returns an object of another type yields None; a backend *)
(* value holds its surface and a 2D context obtained from that surface,    *)
(* and once it exists the pairing never changes.                           *)
ConstructionIsAllOrNothing ==
    [][/\ (lastCall'.op = "new" /\ lastCall'.outcome # "2d") =>
            (backend'.tag = "None" /\ result'.tag = "None")
       /\ backend'.tag = "Some" =>
            /\ backend'.canvas \in Surfaces
            /\ backend'.context.surface = backend'.canvas
            /\ backend'.context.type = "OffscreenCanvasRenderingContext2d"
       /\ backend.tag = "Some" => backend' = backend]_vars

ConstructionWitness ==
    /\ lastCall.op = "new"
    /\ lastCall.outcome = "other"
    /\ backend.tag = "None"

(* C7: after any sequence of backend calls get_size returns the surface's  *)
(* configured (width, height), which no call changes, and get_size issues  *)
(* no context operation.                                                   *)
SizeIsSurfaceSize ==
    [][/\ surfaces' = surfaces
       /\ lastCall'.op = "get_size" =>
            /\ result'.tag = "Size"
            /\ result'.val = surfaces[backend.canvas]
            /\ ops' = <<>>
            /\ ctx' = ctx]_vars

SizeWitness ==
    /\ lastCall.op = "get_size"
    /\ backend.canvas = "s2"
    /\ result.val = <<500, 300>>
    /\ ncalls = 2
    /\ ctx # NewContextState

(* C8: a draw_line call with non-zero alpha sets the stroke colour once    *)
(* and the line width once, and only then issues exactly one move_to(from) *)
(* line_to(to) stroke sequence.                                            *)
LineStyleThenPath ==
    (lastCall.op = "draw_line" /\ lastCall.color.alpha # 0) =>
        LET seq == Only(ops, {"set_stroke_style", "set_line_width",
                              "move_to", "line_to", "stroke"})
        IN  /\ Names(seq) = <<"set_stroke_style", "set_line_width",
                              "move_to", "line_to", "stroke">>
            /\ seq[2].args = <<lastCall.stroke_width>>
            /\ seq[3].args = lastCall.from
            /\ seq[4].args = lastCall.to

LineWitness ==
    /\ lastCall.op = "draw_line"
    /\ lastCall.color.alpha = 15
    /\ lastCall.stroke_width = 2
    /\ lastCall.from = <<0, 0>>
    /\ lastCall.to = <<50, 10>>
    /\ Len(ops) = 6

(* the host rejects an operation that the call reaches *)
FailureReached ==
    /\ lastCall.op = "draw_text"
    /\ lastCall.color.alpha # 0
    /\ \/ lastCall.fail.at = "fill_text"
       \/ lastCall.fail.at \in {"translate", "rotate"} /\ lastCall.transform # "None"

(* C9: when translate, rotate or fill_text fails inside draw_text the call *)
(* returns a DrawingError carrying the JSON serialization of the failure,  *)
(* or "unknown" when serialization fails, and the failed operation is not  *)
(* issued again; draw_pixel, draw_line, ensure_prepared and present never  *)
(* return an error.                                                        *)
ErrorsPropagate ==
    /\ FailureReached =>
          /\ result.tag = "DrawingError"
          /\ result.val = IF lastCall.fail.e.stringifiable
                          THEN lastCall.fail.e.json
                          ELSE <<"u", "n", "k", "n", "o", "w", "n">>
          /\ Len(Only(ops, {lastCall.fail.at})) = 1
          /\ ops[Len(ops)].op = lastCall.fail.at
    /\ lastCall.op \in {"draw_pixel", "draw_line", "ensure_prepared", "present"} =>
          result.tag = "Ok"

ErrorWitness ==
    /\ FailureReached
    /\ lastCall.fail.at = "rotate"
    /\ lastCall.fail.e.stringifiable
    /\ result.tag = "DrawingError"
    /\ result.val = <<"{", "}">>

(* C10: after any sequence of draw calls, whatever their outcomes, the     *)
(* context's saved-state stack is as deep as before the sequence and no    *)
(* translation or rotation of an earlier text remains in effect.           *)
SavedStateIsBalanced ==
    /\ Len(ctx.saved) = 0
    /\ ctx.transform = IdentityTransform
====
